---- MODULE Spec2Model ----
(***************************************************************************)
(* Local-first quote store with an outbox, a remote collection and the     *)
(* push -> fetch -> merge -> push-again synchronisation of                 *)
(* dom-manipulation/script.js.                                             *)
(*                                                                         *)
(* One action is one run of the JavaScript event loop: a handler runs from *)
(* the event that starts it (boot, a click, the interval timer, a network  *)
(* response) to the next `await fetch(...)` or to its end.  A POST or PUT  *)
(* reaches the remote store when it is sent; a GET reads the remote store  *)
(* when its response is delivered.  The file assumes one remote collection *)
(* of quotes { id, text, category, updatedAt } with ids the store assigns   *)
(* (its header); fetchQuotesFromServer reads it from /posts, the pushes go  *)
(* to /quotes, and the model has the one collection the header describes.   *)
(*                                                                         *)
(* Ids are strings in the program ("local-<ms>-<rand>", or the opaque id   *)
(* the remote store assigns), so String(id) is the id itself.  Timestamps  *)
(* are ISO-8601 strings of one width, whose lexicographic order is the     *)
(* order of the instants; they are integers here.                          *)
(***************************************************************************)
EXTENDS Integers, Sequences, FiniteSets, TLC

\* ---------------------------------------------------------------- bounds
MaxTime == 3       \* the clock (milliseconds) stops advancing here
MaxRand == 2       \* random suffixes of idForLocal (1000 in the code)
MaxAdds == 1       \* addLocalQuote calls
MaxEdits == 1      \* editLocalQuote calls
MaxSyncs == 1      \* syncWithServer invocations after the one boot() starts
MaxRestores == 1   \* clicks on "Restore Local"
MaxCycles == 2     \* syncWithServer invocations in flight at once
MaxMergeLocal == 2   \* quotes of a local collection given to merge
MaxMergeRemote == 2  \* quotes of a remote collection given to merge

\* the (text, category) pairs a user enters: one filled in, one with an empty text
Inputs == {<<"A", "x">>, <<"", "y">>}
Cycles == 1..MaxCycles

VARIABLES
  now,                  \* Date.now(), in milliseconds
  booted,               \* boot() has run
  quotes,               \* let quotes
  pendingLocalChanges,  \* let pendingLocalChanges (the array the name is bound to)
  storage,              \* localStorage[LS_KEY]
  nextUid,              \* identity of the next PendingChange object
  cyc,                  \* the syncWithServer invocations, each at its await
  server,               \* the remote collection
  nextServerId,         \* the id the remote store assigns next
  syncStatus,           \* syncStatusEl.textContent
  banner,               \* the conflict items shown in conflictListEl
  used,                 \* how many adds, edits, syncs, restores have run
  ev,                   \* the handler that ran last
  net,                  \* the network: what requests can come to, what came of them
  mrun, mIn, mOut       \* MergeSpec: merge runs so far, the first input, the results

vars == <<now, booted, quotes, pendingLocalChanges, storage, nextUid, cyc, server,
          nextServerId, syncStatus, banner, used, ev, net, mrun, mIn, mOut>>

\* ------------------------------------------------------------ utilities
LocalId(t, r) == [kind |-> "local", a |-> t, b |-> r]
ServerId(n) == [kind |-> "srv", a |-> n, b |-> 0]
\* String(id).startsWith("local-")
IsLocalId(id) == id.kind = "local"

\* nowIso() / Date.now(): the clock may or may not have advanced since the last read
ClockReads == {t \in {now, now + 1} : t <= MaxTime}

\* idForLocal(): `local-${Date.now()}-${Math.floor(Math.random()*1000)}`
idForLocal(t) == {LocalId(t, r) : r \in 0..(MaxRand - 1)}

Quote(id, text, category, updatedAt) ==
  [id |-> id, text |-> text, category |-> category, updatedAt |-> updatedAt]

\* JSON.stringify({ quotes, pendingLocalChanges }): object identity is not kept
Persisted(q, pend) ==
  [kind |-> "json",
   quotes |-> q,
   pendingLocalChanges |-> [i \in 1..Len(pend) |-> [op |-> pend[i].op, quote |-> pend[i].quote]]]

\* what localStorage[LS_KEY] can hold: no item, the empty string, text that
\* JSON.parse rejects, JSON for null, for a number or string, for an object whose
\* `quotes` is not an array, for an object with an array `quotes` whose
\* `pendingLocalChanges` is not an array, and what saveLocalState writes
RecordKinds ==
  <<"absent", "empty", "unparsable", "null", "scalar", "noQuotes", "noOutbox", "json">>
KindCode(kind) == CHOOSE i \in 1..Len(RecordKinds) : RecordKinds[i] = kind

Absent == [kind |-> "absent"]

\* quotes.findIndex(q => String(q.id) === String(id)); 0 for -1
FindIndex(q, id) ==
  IF \E i \in 1..Len(q) : q[i].id = id
  THEN CHOOSE i \in 1..Len(q) : q[i].id = id /\ \A j \in 1..(i - 1) : q[j].id # id
  ELSE 0

\* mutant: the replacement keeps the id the quote had
MapReplaceKeepingId(q, id, repl) ==
  [i \in 1..Len(q) |-> IF q[i].id = id THEN [repl EXCEPT !.id = id] ELSE q[i]]

\* quotes.map(q => q.id === id ? repl : q)
MapReplace(q, id, repl) == [i \in 1..Len(q) |-> IF q[i].id = id THEN repl ELSE q[i]]

IdleCycle ==
  [pc |-> "idle", phase |-> 0, live |-> FALSE, arr |-> <<>>, idx |-> 0,
   succeeded |-> {}, cur |-> 0, res |-> "none", body |-> 0, conflicts |-> <<>>]

NoEvent == [op |-> "none", p |-> 0, c |-> 0]

\* the network.  `up`: from now on every request succeeds (until then a request
\* succeeds or fails); `log`: whether the failures are recorded, in `failed` the
\* changes whose request failed, in `fetchFailed` that a GET failed
Flaky == [up |-> FALSE, log |-> FALSE, failed |-> {}, fetchFailed |-> FALSE]
Logged == [Flaky EXCEPT !.log = TRUE]

\* ------------------------------------------------------------------ merge
HasId(qs, id) == \E i \in 1..Len(qs) : qs[i].id = id

\* new Map(qs.map(q => [String(q.id), q])).get(id): the last quote of that id
LastWithId(qs, id) ==
  qs[CHOOSE i \in 1..Len(qs) : qs[i].id = id /\ \A j \in (i + 1)..Len(qs) : qs[j].id # id]

\* serverById.entries(): one entry per id in order of first occurrence, holding
\* the last record of that id
RECURSIVE ServerEntriesFrom(_, _)
ServerEntriesFrom(sq, i) ==
  IF i > Len(sq) THEN <<>>
  ELSE IF \E j \in 1..(i - 1) : sq[j].id = sq[i].id THEN ServerEntriesFrom(sq, i + 1)
  ELSE <<LastWithId(sq, sq[i].id)>> \o ServerEntriesFrom(sq, i + 1)

\* mutant: the comparison lets an equal timestamp count as newer
ServerIsNewerOrEqual(serverAt, localAt) == serverAt >= localAt

\* serverAt > localAt
ServerIsNewer(serverAt, localAt) == serverAt > localAt

\* mutant: the second comparison repeats the first, so a newer local quote is kept
LocalIsNewerSwapped(localAt, serverAt) == serverAt > localAt

\* mutant: the second comparison lets an equal timestamp count as newer
LocalIsNewerOrEqual(localAt, serverAt) == localAt >= serverAt

\* localAt > serverAt
LocalIsNewer(localAt, serverAt) == localAt > serverAt

\* pendingLocalChanges.some(ch => ch.quote && String(ch.quote.id) === String(local.id))
HadPending(pend, id) == \E k \in 1..Len(pend) : pend[k].quote.id = id

Conflict(local, sItem) == [local |-> local, server |-> sItem]

\* mutant: the conflict is recorded without looking at the outbox
NewerServerConflictsAnyText(conflicts, pend, local, sItem) ==
  IF local.text # sItem.text THEN Append(conflicts, Conflict(local, sItem)) ELSE conflicts

\* if (hadPending && local.text !== sItem.text) conflicts.push({ local, server: sItem })
NewerServerConflicts(conflicts, pend, local, sItem) ==
  IF HadPending(pend, local.id) /\ local.text # sItem.text
  THEN Append(conflicts, Conflict(local, sItem))
  ELSE conflicts

\* mutant: unshift instead of push
AddServerItemFirst(qs, sItem) == <<sItem>> \o qs

\* if (!local) quotes.push(sItem)
AddServerItem(qs, sItem) == Append(qs, sItem)

\* the body of the loop over serverById.entries(); local0 is the collection
\* localById was built from, acc the quotes and conflicts so far
MergeItem(acc, local0, pend, sItem) ==
  IF ~HasId(local0, sItem.id)
  THEN [acc EXCEPT !.quotes = AddServerItem(@, sItem)]
  ELSE LET local == LastWithId(local0, sItem.id)
           idx == FindIndex(acc.quotes, local.id)
       IN IF ServerIsNewer(sItem.updatedAt, local.updatedAt)
          THEN [quotes |-> IF idx # 0 THEN [acc.quotes EXCEPT ![idx] = sItem] ELSE acc.quotes,
                conflicts |-> NewerServerConflicts(acc.conflicts, pend, local, sItem)]
          ELSE IF LocalIsNewer(local.updatedAt, sItem.updatedAt)
          THEN IF idx # 0
               THEN [quotes |-> [acc.quotes EXCEPT ![idx] = sItem],
                     conflicts |-> Append(acc.conflicts, Conflict(local, sItem))]
               ELSE acc
          ELSE acc

RECURSIVE MergeLoop(_, _, _, _, _)
MergeLoop(entries, i, acc, local0, pend) ==
  IF i > Len(entries) THEN acc
  ELSE MergeLoop(entries, i + 1, MergeItem(acc, local0, pend, entries[i]), local0, pend)

\* mergeServerIntoLocal(serverQuotes): the quotes it leaves and the conflicts it returns
mergeServerIntoLocal(local0, pend, serverQuotes) ==
  MergeLoop(ServerEntriesFrom(serverQuotes, 1), 1,
            [quotes |-> local0, conflicts |-> <<>>], local0, pend)

\* ------------------------------------------------------------- the flush
\* mutant: the queue is emptied once the loop is over
RemoveAttempted(pend, succeeded) == <<>>

\* pendingLocalChanges.filter(c => !succeeded.includes(c))
RemoveSucceeded(pend, succeeded) == SelectSeq(pend, LAMBDA c : c.uid \notin succeeded)

\* `pendingLocalChanges = ...` binds the name to a new array: a for...of loop
\* suspended on the array the name was bound to keeps iterating that array
Detached(c, oldPend) ==
  [q \in Cycles |-> IF c[q].live THEN [c[q] EXCEPT !.live = FALSE, !.arr = oldPend] ELSE c[q]]

\* a create, or an update whose quote still has a local id, is POSTed
IsPost(change) == change.op = "create" \/ IsLocalId(change.quote.id)

\* what syncWithServer does once a pushLocalChanges() call has returned:
\* after the first, fetchQuotesFromServer() up to its await; after the second,
\* setSyncStatus("Synced") and showConflictBanner(conflicts)
AfterFlush(p, me, q, pend, sto, c, e, status) ==
  /\ quotes' = q
  /\ pendingLocalChanges' = pend
  /\ storage' = sto
  /\ ev' = e
  /\ UNCHANGED <<server, nextServerId, net>>
  /\ IF me.phase = 1
     THEN /\ cyc' = [c EXCEPT ![p] = [IdleCycle EXCEPT !.pc = "wait_fetch", !.phase = 1]]
          /\ syncStatus' = status
          /\ UNCHANGED banner
     ELSE /\ cyc' = [c EXCEPT ![p] = IdleCycle]
          /\ syncStatus' = "Synced"
          /\ banner' = IF Len(me.conflicts) > 0 THEN me.conflicts ELSE banner

\* one iteration of the for...of loop up to `await fetch(...)`: the request
\* reaches the remote store, or fails
SendNext(p, me, q, pend, sto, c, e, status, change) ==
  \E ok \in BOOLEAN :
    LET created == [change.quote EXCEPT !.id = ServerId(nextServerId)]
        known == HasId(server, change.quote.id)
    IN /\ ok => (IsPost(change) \/ known)
       /\ net.up => ok
       /\ net' = IF net.log /\ ~ok THEN [net EXCEPT !.failed = @ \cup {change.uid}] ELSE net
       /\ server' = IF ~ok THEN server
                    ELSE IF IsPost(change) THEN Append(server, created)
                    ELSE MapReplace(server, change.quote.id, change.quote)
       /\ nextServerId' = IF ok /\ IsPost(change) THEN nextServerId + 1 ELSE nextServerId
       /\ cyc' = [c EXCEPT ![p] =
                    [me EXCEPT !.pc = "wait_push", !.idx = me.idx + 1, !.cur = change,
                               !.res = IF ok THEN "ok" ELSE "fail",
                               !.body = IF ~ok THEN 0
                                        ELSE IF IsPost(change) THEN created ELSE change.quote]]
       /\ quotes' = q
       /\ pendingLocalChanges' = pend
       /\ storage' = sto
       /\ syncStatus' = status
       /\ ev' = e
       /\ UNCHANGED banner

\* mutant: the filter is applied to the array the loop went through
EndFlushOfIterated(p, me, q, pend, c, e, status) ==
  LET pend2 == RemoveSucceeded(IF me.live THEN pend ELSE me.arr, me.succeeded)
  IN AfterFlush(p, me, q, pend2, Persisted(q, pend2), Detached(c, pend), e, status)

\* the end of pushLocalChanges: filter the queue, saveLocalState()
EndFlush(p, me, q, pend, c, e, status) ==
  LET pend2 == RemoveSucceeded(pend, me.succeeded)
  IN AfterFlush(p, me, q, pend2, Persisted(q, pend2), Detached(c, pend), e, status)

\* the for...of loop of pushLocalChanges, from the iterator's next()
FlushFrom(p, me, q, pend, sto, c, e, status) ==
  LET arr == IF me.live THEN pend ELSE me.arr
  IN IF me.idx < Len(arr)
     THEN SendNext(p, me, q, pend, sto, c, e, status, arr[me.idx + 1])
     ELSE EndFlush(p, me, q, pend, c, e, status)

\* pushLocalChanges() from its first line
pushLocalChanges(p, me, q, pend, sto, c, e, status) ==
  IF Len(pend) = 0
  THEN AfterFlush(p, me, q, pend, sto, c, e, status)
  ELSE FlushFrom(p, [me EXCEPT !.live = TRUE, !.arr = <<>>, !.idx = 0, !.succeeded = {}],
                 q, pend, sto, c, e, status)

\* syncWithServer() up to its first await
syncWithServer(p, q, pend, sto, e) ==
  pushLocalChanges(p, [IdleCycle EXCEPT !.phase = 1], q, pend, sto, cyc, e, "Syncing...")

\* ---------------------------------------------------------------- actions
Event(op, p, c) == [op |-> op, p |-> p, c |-> c]

\* the objects JSON.parse builds for a stored outbox, each with its own identity
Revived(stored) ==
  [i \in 1..Len(stored) |-> [uid |-> i, op |-> stored[i].op, quote |-> stored[i].quote]]

\* mutant: the stored outbox is not read back
RestoredWithoutOutbox(raw) == <<>>

\* Array.isArray(parsed.pendingLocalChanges) ? parsed.pendingLocalChanges : []
RestoredOutbox(raw) ==
  IF raw.kind = "json" THEN Revived(raw.pendingLocalChanges) ELSE <<>>

\* loadLocalState(): whether it succeeded, and what it restored.  `!raw` returns
\* false for no item and for ""; JSON.parse throws into the catch block for
\* unparsable text; `parsed && Array.isArray(parsed.quotes)` is false for null,
\* for a scalar (its `quotes` is undefined) and for an object without an array
\* `quotes`
loadLocalState(raw) ==
  IF raw.kind \in {"json", "noOutbox"}
  THEN [ok |-> TRUE, quotes |-> raw.quotes, pendingLocalChanges |-> RestoredOutbox(raw)]
  ELSE [ok |-> FALSE, quotes |-> <<>>, pendingLocalChanges |-> <<>>]

\* boot(): initLocalData(), startPeriodicSync(), syncWithServer(false)
Boot ==
  /\ ~booted
  /\ booted' = TRUE
  /\ UNCHANGED <<used, mrun, mIn, mOut>>
  /\ LET l == loadLocalState(storage)
     IN IF l.ok
        THEN /\ nextUid' = Len(l.pendingLocalChanges) + 1
             /\ now' = now
             /\ syncWithServer(1, l.quotes, l.pendingLocalChanges, storage,
                               Event("boot", 1, KindCode(storage.kind)))
        ELSE \* the two seeds are built in one array literal, within one clock reading
             \E id1 \in idForLocal(now), id2 \in idForLocal(now) :
               LET q == <<Quote(id1, "S1", "Motivation", now), Quote(id2, "S2", "Inspiration", now)>>
               IN /\ now' = now
                  /\ nextUid' = nextUid
                  /\ syncWithServer(1, q, <<>>, Persisted(q, <<>>),
                                    Event("boot", 1, KindCode(storage.kind)))

\* addLocalQuote(text, category)
addLocalQuote(text, category) ==
  /\ booted
  /\ used.adds < MaxAdds
  /\ \E t \in ClockReads : \E id \in idForLocal(t) :
       LET newQ == Quote(id, text, category, t)
           change == [uid |-> nextUid, op |-> "create", quote |-> newQ]
       IN /\ now' = t
          /\ quotes' = Append(quotes, newQ)
          /\ pendingLocalChanges' = Append(pendingLocalChanges, change)
          /\ storage' = Persisted(quotes', pendingLocalChanges')
          /\ ev' = Event("add", 0, nextUid)
  /\ nextUid' = nextUid + 1
  /\ used' = [used EXCEPT !.adds = @ + 1]
  /\ UNCHANGED <<booted, cyc, server, nextServerId, net, syncStatus, banner, mrun, mIn, mOut>>

\* editLocalQuote(localId, newText, newCategory), for an id the collection holds
editLocalQuote(localId, newText, newCategory) ==
  /\ booted
  /\ used.edits < MaxEdits
  /\ FindIndex(quotes, localId) # 0
  /\ \E t \in ClockReads :
       LET idx == FindIndex(quotes, localId)
           updated == [quotes[idx] EXCEPT !.text = newText, !.category = newCategory,
                                          !.updatedAt = t]
           change == [uid |-> nextUid, op |-> "update", quote |-> updated]
       IN /\ now' = t
          /\ quotes' = [quotes EXCEPT ![idx] = updated]
          /\ pendingLocalChanges' = Append(pendingLocalChanges, change)
          /\ storage' = Persisted(quotes', pendingLocalChanges')
          /\ ev' = Event("edit", 0, nextUid)
  /\ nextUid' = nextUid + 1
  /\ used' = [used EXCEPT !.edits = @ + 1]
  /\ UNCHANGED <<booted, cyc, server, nextServerId, net, syncStatus, banner, mrun, mIn, mOut>>

\* the interval timer fires, or "Sync now" is clicked
StartSync(p) ==
  /\ booted
  /\ cyc[p].pc = "idle"
  /\ used.syncs < MaxSyncs
  /\ used' = [used EXCEPT !.syncs = @ + 1]
  /\ syncWithServer(p, quotes, pendingLocalChanges, storage, Event("sync", p, 0))
  /\ UNCHANGED <<now, booted, nextUid, mrun, mIn, mOut>>

\* the response to a POST or PUT of pushLocalChanges arrives with a success status
PushSucceeded(p) ==
  /\ cyc[p].pc = "wait_push"
  /\ cyc[p].res = "ok"
  /\ LET me == cyc[p]
     IN FlushFrom(p, [me EXCEPT !.succeeded = @ \cup {me.cur.uid}],
                  MapReplace(quotes, me.cur.quote.id, me.body),
                  pendingLocalChanges, storage, cyc, Event("pushOk", p, me.cur.uid), syncStatus)
  /\ UNCHANGED <<now, booted, nextUid, used, mrun, mIn, mOut>>

\* the request of pushLocalChanges fails: the catch block keeps the change
PushFailed(p) ==
  /\ cyc[p].pc = "wait_push"
  /\ cyc[p].res = "fail"
  /\ FlushFrom(p, cyc[p], quotes, pendingLocalChanges, storage, cyc,
               Event("pushFail", p, cyc[p].cur.uid), syncStatus)
  /\ UNCHANGED <<now, booted, nextUid, used, mrun, mIn, mOut>>

\* fetchQuotesFromServer() returns: merge, then the second pushLocalChanges()
FetchSucceeded(p) ==
  /\ cyc[p].pc = "wait_fetch"
  /\ LET m == mergeServerIntoLocal(quotes, pendingLocalChanges, server)
     IN pushLocalChanges(p, [IdleCycle EXCEPT !.phase = 2, !.conflicts = m.conflicts],
                         m.quotes, pendingLocalChanges,
                         Persisted(m.quotes, pendingLocalChanges), cyc,
                         Event("merge", p, 0), syncStatus)
  /\ UNCHANGED <<now, booted, nextUid, used, mrun, mIn, mOut>>

\* mutant: the failure is swallowed and the cycle goes on to its second flush
FetchFailedGoesOn(p) ==
  /\ cyc[p].pc = "wait_fetch"
  /\ pushLocalChanges(p, [IdleCycle EXCEPT !.phase = 2], quotes, pendingLocalChanges,
                      storage, cyc, Event("fetchFail", p, 0), syncStatus)
  /\ UNCHANGED <<now, booted, nextUid, used, mrun, mIn, mOut>>

\* fetchQuotesFromServer() throws: the catch block of syncWithServer
FetchFailed(p) ==
  /\ cyc[p].pc = "wait_fetch"
  /\ ~net.up
  /\ cyc' = [cyc EXCEPT ![p] = IdleCycle]
  /\ syncStatus' = "Sync error"
  /\ ev' = Event("fetchFail", p, 0)
  /\ net' = IF net.log THEN [net EXCEPT !.fetchFailed = TRUE] ELSE net
  /\ UNCHANGED <<now, booted, quotes, pendingLocalChanges, storage, nextUid, server,
                 nextServerId, banner, used, mrun, mIn, mOut>>

RemoveAt(s, i) == [j \in 1..(Len(s) - 1) |-> IF j < i THEN s[j] ELSE s[j + 1]]

\* mutant: the snapshot is put back as it is
RestoredAsIs(local, t) == local

\* { ...conflict.local, updatedAt: nowIso() }
Restored(local, t) == [local EXCEPT !.updatedAt = t]

\* click on "Restore Local" of conflict item i, whose quote the collection holds
RestoreLocal(i) ==
  /\ i \in 1..Len(banner)
  /\ used.restores < MaxRestores
  /\ FindIndex(quotes, banner[i].local.id) # 0
  /\ \E t \in ClockReads :
       LET idxLocal == FindIndex(quotes, banner[i].local.id)
           restored == Restored(banner[i].local, t)
           change == [uid |-> nextUid, op |-> "update", quote |-> restored]
       IN /\ now' = t
          /\ quotes' = [quotes EXCEPT ![idxLocal] = restored]
          /\ pendingLocalChanges' = Append(pendingLocalChanges, change)
          /\ storage' = Persisted(quotes', pendingLocalChanges')
          /\ ev' = Event("restore", i, nextUid)
  /\ banner' = RemoveAt(banner, i)
  /\ nextUid' = nextUid + 1
  /\ used' = [used EXCEPT !.restores = @ + 1]
  /\ UNCHANGED <<booted, cyc, server, nextServerId, net, syncStatus, mrun, mIn, mOut>>

\* click on "Keep Server" of conflict item i
KeepServer(i) ==
  /\ i \in 1..Len(banner)
  /\ banner' = RemoveAt(banner, i)
  /\ ev' = Event("keep", i, 0)
  /\ UNCHANGED <<now, booted, quotes, pendingLocalChanges, storage, nextUid, cyc, server,
                 nextServerId, net, syncStatus, used, mrun, mIn, mOut>>

\* the calls and clicks of the page's user, and the events of the event loop
AddQuote == \E in \in Inputs : addLocalQuote(in[1], in[2])
EditQuote == \E i \in 1..Len(quotes), in \in Inputs : editLocalQuote(quotes[i].id, in[1], in[2])
SyncStarts == \E p \in Cycles : StartSync(p)
PushResponse == \E p \in Cycles : PushSucceeded(p) \/ PushFailed(p)
FetchResponse == \E p \in Cycles : FetchSucceeded(p) \/ FetchFailed(p)
ClickRestore == \E i \in 1..Len(banner) : RestoreLocal(i)
ClickKeepServer == \E i \in 1..Len(banner) : KeepServer(i)

Init ==
  /\ now = 1
  /\ booted = FALSE
  /\ quotes = <<>>
  /\ pendingLocalChanges = <<>>
  /\ storage = Absent
  /\ nextUid = 1
  /\ cyc = [p \in Cycles |-> IdleCycle]
  /\ server = <<>>
  /\ nextServerId = 1
  /\ syncStatus = ""
  /\ banner = <<>>
  /\ used = [adds |-> 0, edits |-> 0, syncs |-> 0, restores |-> 0]
  /\ ev = NoEvent
  /\ net = Flaky
  /\ mrun = 0
  /\ mIn = <<>>
  /\ mOut = <<>>

Next ==
  \/ Boot
  \/ AddQuote
  \/ EditQuote
  \/ SyncStarts
  \/ PushResponse
  \/ FetchResponse
  \/ ClickRestore
  \/ ClickKeepServer

Spec == Init /\ [][Next]_vars

\* ------------------------------------------- the scheduler and the network
\* mutant: the interval is cleared once a cycle has ended in "Sync error"
TimerSyncUnlessError(p) ==
  /\ booted
  /\ cyc[p].pc = "idle"
  /\ syncStatus # "Sync error"
  /\ syncWithServer(p, quotes, pendingLocalChanges, storage, Event("sync", p, 0))
  /\ UNCHANGED <<now, booted, nextUid, used, mrun, mIn, mOut>>

\* setInterval(() => syncWithServer(false), SYNC_INTERVAL_MS): the timer fires,
\* however the cycles before ended and however many there were
TimerSync(p) ==
  /\ booted
  /\ cyc[p].pc = "idle"
  /\ syncWithServer(p, quotes, pendingLocalChanges, storage, Event("sync", p, 0))
  /\ UNCHANGED <<now, booted, nextUid, used, mrun, mIn, mOut>>

\* a cycle is over well within the interval (30 s): the timer's cycles follow
\* one another
TimerFires == TimerSync(1)

\* the remote store and the way to it are back for good
NetworkRecovers ==
  /\ ~net.up
  /\ net' = [net EXCEPT !.up = TRUE]
  /\ UNCHANGED <<now, booted, quotes, pendingLocalChanges, storage, nextUid, cyc, server,
                 nextServerId, syncStatus, banner, used, ev, mrun, mIn, mOut>>

LiveInit ==
  /\ now = 1
  /\ booted = FALSE
  /\ quotes = <<>>
  /\ pendingLocalChanges = <<>>
  /\ storage = Absent
  /\ nextUid = 1
  /\ cyc = [p \in Cycles |-> IdleCycle]
  /\ server = <<>>
  /\ nextServerId = 1
  /\ syncStatus = ""
  /\ banner = <<>>
  /\ used = [adds |-> 0, edits |-> 0, syncs |-> 0, restores |-> 0]
  /\ ev = NoEvent
  /\ net = Logged
  /\ mrun = 0
  /\ mIn = <<>>
  /\ mOut = <<>>

LiveNext ==
  \/ Boot
  \/ AddQuote
  \/ EditQuote
  \/ TimerFires
  \/ PushResponse
  \/ FetchResponse
  \/ ClickRestore
  \/ ClickKeepServer
  \/ NetworkRecovers

\* the page boots; the interval timer keeps firing (TimerFires is enabled from
\* the end of a cycle until it starts the next); every request gets its response;
\* the network comes back for good
LiveSpec ==
  /\ LiveInit
  /\ [][LiveNext]_vars
  /\ WF_vars(Boot)
  /\ WF_vars(TimerFires)
  /\ WF_vars(NetworkRecovers)
  /\ \A p \in Cycles : WF_vars(PushSucceeded(p) \/ PushFailed(p))
  /\ \A p \in Cycles : WF_vars(FetchSucceeded(p) \/ FetchFailed(p))

\* ------------------------------------------------ merge on enumerated inputs
\* ids, (text, category) pairs and timestamps of the collections given to merge:
\* two canonical ids and a local one; both orders and equality of two timestamps
MergeLocalIds == {ServerId(1), ServerId(2), LocalId(1, 0)}
MergeRemoteIds == {ServerId(1), ServerId(2)}
MergeTimes == {1, 2}

MergeQuotes(ids) ==
  {Quote(id, in[1], in[2], t) : id \in ids, in \in Inputs, t \in MergeTimes}

\* the sequences over S of at most n quotes, no two of one id (what a collection
\* keyed by id holds)
RECURSIVE Collections(_, _)
Collections(S, n) ==
  IF n = 0 THEN {<<>>}
  ELSE LET shorter == Collections(S, n - 1)
       IN shorter \cup {Append(c, x) : c \in {d \in shorter : Len(d) = n - 1},
                                       x \in S}

DistinctIds(qs) == \A i, j \in 1..Len(qs) : qs[i].id = qs[j].id => i = j

\* an outbox holding one update for each quote of `local` whose index is in `which`
RECURSIVE OutboxFor(_, _, _)
OutboxFor(local, which, i) ==
  IF i > Len(local) THEN <<>>
  ELSE (IF i \in which THEN <<[uid |-> i, op |-> "update", quote |-> local[i]]>> ELSE <<>>)
       \o OutboxFor(local, which, i + 1)

MergeInit ==
  /\ now = 1
  /\ booted = TRUE
  /\ quotes \in {c \in Collections(MergeQuotes(MergeLocalIds), MaxMergeLocal) : DistinctIds(c)}
  /\ \E which \in SUBSET (1..Len(quotes)) : pendingLocalChanges = OutboxFor(quotes, which, 1)
  /\ server \in {c \in Collections(MergeQuotes(MergeRemoteIds), MaxMergeRemote) : DistinctIds(c)}
  /\ storage = Persisted(quotes, pendingLocalChanges)
  /\ nextUid = Len(quotes) + 1
  /\ cyc = [p \in Cycles |-> IdleCycle]
  /\ nextServerId = 3
  /\ syncStatus = ""
  /\ banner = <<>>
  /\ used = [adds |-> 0, edits |-> 0, syncs |-> 0, restores |-> 0]
  /\ ev = NoEvent
  /\ net = Flaky
  /\ mrun = 0
  /\ mIn = <<>>
  /\ mOut = <<>>

\* mergeServerIntoLocal(serverQuotes) on the collection as it stands: it merges in
\* place and ends with saveLocalState()
MergeCall ==
  /\ mrun < 2
  /\ LET m == mergeServerIntoLocal(quotes, pendingLocalChanges, server)
     IN /\ quotes' = m.quotes
        /\ storage' = Persisted(m.quotes, pendingLocalChanges)
        /\ mOut' = Append(mOut, m)
  /\ mIn' = IF mrun = 0
            THEN [local |-> quotes, pending |-> pendingLocalChanges, remote |-> server]
            ELSE mIn
  /\ mrun' = mrun + 1
  /\ ev' = Event("merge", 0, 0)
  /\ UNCHANGED <<now, booted, pendingLocalChanges, nextUid, cyc, server, nextServerId, net,
                 syncStatus, banner, used>>

MergeNext == MergeCall

MergeSpec == MergeInit /\ [][MergeNext]_vars

\* ------------------------------------------------- boot on enumerated records
\* the durable records a page can find at boot: every kind of unusable record,
\* and records with the collections and outboxes of MergeInit
StoredCollections ==
  {c \in Collections(MergeQuotes(MergeLocalIds), MaxMergeLocal) : DistinctIds(c)}

StoredRecords ==
  {[kind |-> k] : k \in {"absent", "empty", "unparsable", "null", "scalar", "noQuotes"}}
  \cup {[kind |-> "noOutbox", quotes |-> c] : c \in StoredCollections}
  \cup {Persisted(c, OutboxFor(c, which, 1)) :
          c \in StoredCollections, which \in SUBSET (1..MaxMergeLocal)}

LoadInit ==
  /\ now = 1
  /\ booted = FALSE
  /\ quotes = <<>>
  /\ pendingLocalChanges = <<>>
  /\ storage \in StoredRecords
  /\ nextUid = 1
  /\ cyc = [p \in Cycles |-> IdleCycle]
  /\ server = <<>>
  /\ nextServerId = 1
  /\ syncStatus = ""
  /\ banner = <<>>
  /\ used = [adds |-> 0, edits |-> 0, syncs |-> 0, restores |-> 0]
  /\ ev = NoEvent
  /\ net = Flaky
  /\ mrun = 0
  /\ mIn = <<>>
  /\ mOut = <<>>

LoadNext == Boot

LoadSpec == LoadInit /\ [][LoadNext]_vars

\* ------------------------------------------------------- claims about merge
\* the conflicts of run n recorded for the remote quote of id `id`
ConflictsFor(n, id) == {k \in 1..Len(mOut[n].conflicts) : mOut[n].conflicts[k].server.id = id}

OutboxHolds(pend, id) == \E k \in 1..Len(pend) : pend[k].quote.id = id

\* C3: merging a remote quote whose id is held locally with an older updatedAt
\* puts the remote quote in the local quote's place, and records a conflict
\* {local, server} for it exactly when the outbox holds a change for that id and
\* the two texts differ (collections hold one quote per id).
C3_RemoteNewerReplaces ==
  mrun >= 1 =>
    \A i \in 1..Len(mIn.local), j \in 1..Len(mIn.remote) :
      LET l == mIn.local[i]
          r == mIn.remote[j]
      IN (l.id = r.id /\ r.updatedAt > l.updatedAt) =>
           /\ mOut[1].quotes[i] = r
           /\ \A k \in ConflictsFor(1, r.id) : mOut[1].conflicts[k] = [local |-> l, server |-> r]
           /\ Cardinality(ConflictsFor(1, r.id)) =
                IF OutboxHolds(mIn.pending, l.id) /\ l.text # r.text THEN 1 ELSE 0

\* a newer remote quote overrode a local quote with a pending change and another
\* text, and one without a pending change
C3_Witness ==
  /\ mrun = 1
  /\ Len(mIn.local) = 2
  /\ Len(mIn.remote) = 2
  /\ \A i \in 1..2 : /\ mIn.remote[i].id = mIn.local[i].id
                     /\ mIn.remote[i].updatedAt > mIn.local[i].updatedAt
                     /\ mIn.remote[i].text # mIn.local[i].text
                     /\ mOut[1].quotes[i] = mIn.remote[i]
  /\ OutboxHolds(mIn.pending, mIn.local[1].id)
  /\ ~OutboxHolds(mIn.pending, mIn.local[2].id)
  /\ mOut[1].conflicts = <<[local |-> mIn.local[1], server |-> mIn.remote[1]]>>

\* C4: merging a remote quote whose id is held locally with a newer updatedAt
\* still puts the remote quote in the local quote's place and records exactly one
\* conflict {local, server} for it, whatever the outbox and the texts
\* (collections hold one quote per id).
C4_LocalNewerStillReplaced ==
  mrun >= 1 =>
    \A i \in 1..Len(mIn.local), j \in 1..Len(mIn.remote) :
      LET l == mIn.local[i]
          r == mIn.remote[j]
      IN (l.id = r.id /\ l.updatedAt > r.updatedAt) =>
           /\ mOut[1].quotes[i] = r
           /\ Cardinality(ConflictsFor(1, r.id)) = 1
           /\ \A k \in ConflictsFor(1, r.id) : mOut[1].conflicts[k] = [local |-> l, server |-> r]

\* a newer local quote with no pending change and the remote quote's text was
\* overridden, and the conflict recorded
C4_Witness ==
  /\ mrun = 1
  /\ Len(mIn.local) = 1
  /\ Len(mIn.remote) = 1
  /\ mIn.pending = <<>>
  /\ mIn.local[1].id = mIn.remote[1].id
  /\ mIn.local[1].text = mIn.remote[1].text
  /\ mIn.local[1].updatedAt > mIn.remote[1].updatedAt
  /\ mOut[1].quotes = mIn.remote
  /\ mOut[1].conflicts = <<[local |-> mIn.local[1], server |-> mIn.remote[1]]>>

\* C5: every remote quote whose id no local quote has is in the merged collection
\* exactly once, after the local quotes, and no conflict is recorded for it.
C5_UnknownRemoteAppendedOnce ==
  mrun >= 1 =>
    \A j \in 1..Len(mIn.remote) :
      LET r == mIn.remote[j]
          at == {k \in 1..Len(mOut[1].quotes) : mOut[1].quotes[k].id = r.id}
      IN (\A i \in 1..Len(mIn.local) : mIn.local[i].id # r.id) =>
           /\ Cardinality(at) = 1
           /\ \A k \in at : k > Len(mIn.local) /\ mOut[1].quotes[k] = r
           /\ ConflictsFor(1, r.id) = {}

\* two remote quotes unknown to a non-empty local collection were appended
C5_Witness ==
  /\ mrun = 1
  /\ Len(mIn.local) = 1
  /\ Len(mIn.remote) = 2
  /\ \A j \in 1..2 : mIn.remote[j].id # mIn.local[1].id
  /\ mOut[1].quotes = mIn.local \o mIn.remote
  /\ mOut[1].conflicts = <<>>

C9_MergeFrame ==
  mrun >= 1 =>
    /\ pendingLocalChanges = mIn.pending
    /\ \A i \in 1..Len(mIn.local) :
         LET l == mIn.local[i]
         IN (\A j \in 1..Len(mIn.remote) :
               mIn.remote[j].id = l.id => mIn.remote[j].updatedAt = l.updatedAt) =>
              /\ mOut[1].quotes[i] = l
              /\ \A k \in 1..Len(mOut[1].conflicts) : mOut[1].conflicts[k].local.id # l.id

\* a local-only quote with a pending change and a quote whose remote counterpart
\* has the same updatedAt and another text were both left alone
C9_Witness ==
  /\ mrun = 1
  /\ Len(mIn.local) = 2
  /\ Len(mIn.remote) = 1
  /\ IsLocalId(mIn.local[1].id)
  /\ OutboxHolds(mIn.pending, mIn.local[1].id)
  /\ mIn.local[2].id = mIn.remote[1].id
  /\ mIn.local[2].updatedAt = mIn.remote[1].updatedAt
  /\ mIn.local[2].text # mIn.remote[1].text
  /\ mOut[1].quotes = mIn.local
  /\ mOut[1].conflicts = <<>>
  /\ pendingLocalChanges = mIn.pending

\* ------------------------------------------- claims about the running program
\* C1: no two quotes of the collection have the same id.
C1_UniqueIds == \A i, j \in 1..Len(quotes) : quotes[i].id = quotes[j].id => i = j

\* C2: a quote with a local id keeps it until a push of a change of that id
\* succeeds, and when the push of a create succeeds the collection holds no quote
\* of the change's local id and holds a quote with the id the response returned.
C2_CanonicalIdAfterPush ==
  [][/\ \A i \in 1..Len(quotes) :
          (IsLocalId(quotes[i].id) /\ ~HasId(quotes', quotes[i].id)) => ev'.op = "pushOk"
     /\ \A p \in Cycles :
          (ev'.op = "pushOk" /\ ev'.p = p /\ cyc[p].cur.op = "create") =>
            /\ ~HasId(quotes', cyc[p].cur.quote.id)
            /\ HasId(quotes', cyc[p].body.id)]_vars

\* the position of the change with identity uid in an outbox; 0 if it is not there
PositionOf(pend, uid) ==
  IF \E k \in 1..Len(pend) : pend[k].uid = uid
  THEN CHOOSE k \in 1..Len(pend) : pend[k].uid = uid
  ELSE 0

\* `new` is `old` without some of its entries, the others in their order
IsRestOf(new, old) ==
  new = SelectSeq(old, LAMBDA c : \E k \in 1..Len(new) : new[k] = c)

\* C7, as stated: when the request for a change fails, the change stays in the
\* outbox, unchanged and at the index it had, and no quote id is altered.
C7_FailedPushKeepsPosition ==
  [][ev'.op = "pushFail" =>
       LET at == PositionOf(pendingLocalChanges, ev'.c)
       IN /\ [i \in 1..Len(quotes') |-> quotes'[i].id] = [i \in 1..Len(quotes) |-> quotes[i].id]
          /\ at # 0 => /\ at <= Len(pendingLocalChanges')
                       /\ pendingLocalChanges'[at] = pendingLocalChanges[at]]_vars

\* C7, amended: when the request for a change fails, the handling of the failure
\* leaves every quote as it was and does not take the change out of the outbox
\* nor alter it; the outbox it leaves is the one it found without the changes
\* that succeeded, the others in their order (so the failed change moves towards
\* the front when changes before it succeeded).
C7_FailedPushKeepsChange ==
  [][ev'.op = "pushFail" =>
       LET at == PositionOf(pendingLocalChanges, ev'.c)
       IN /\ quotes' = quotes
          /\ at # 0 => \E k \in 1..Len(pendingLocalChanges') :
                         pendingLocalChanges'[k] = pendingLocalChanges[at]
          /\ IsRestOf(pendingLocalChanges', pendingLocalChanges)]_vars

\* a request failed, its flush is over and took another change out of the
\* outbox, and the failed change is still there
C7_Witness ==
  /\ ev.op = "pushFail"
  /\ cyc[ev.p].pc # "wait_push"
  /\ \A q \in Cycles : cyc[q].pc # "wait_push"
  /\ nextUid = 3
  /\ Len(pendingLocalChanges) = 1
  /\ pendingLocalChanges[1].uid = ev.c

\* C8, as stated: restore-local gives the entry the snapshot's text and category
\* and a timestamp newer than the snapshot's, and appends one update for it;
\* nothing else changes.
C8_RestoreNewerTimestamp ==
  [][ev'.op = "restore" =>
       LET snap == banner[ev'.p].local
           idx == CHOOSE i \in 1..Len(quotes) :
                    quotes[i].id = snap.id /\ \A j \in 1..(i - 1) : quotes[j].id # snap.id
       IN /\ quotes'[idx].updatedAt > snap.updatedAt
          /\ quotes' = [quotes EXCEPT ![idx] = [snap EXCEPT !.updatedAt = quotes'[idx].updatedAt]]
          /\ pendingLocalChanges' =
               Append(pendingLocalChanges,
                      [uid |-> ev'.c, op |-> "update", quote |-> quotes'[idx]])]_vars

\* C8, amended: restore-local gives the first entry of the snapshot's id the
\* snapshot's text and category and the clock's reading at the click as updatedAt
\* (newer than the snapshot's only if the clock has advanced since), and appends
\* one update holding that quote; every other quote and outbox entry is unchanged.
C8_RestoreLocal ==
  [][ev'.op = "restore" =>
       LET snap == banner[ev'.p].local
           idx == CHOOSE i \in 1..Len(quotes) :
                    quotes[i].id = snap.id /\ \A j \in 1..(i - 1) : quotes[j].id # snap.id
       IN /\ quotes' = [quotes EXCEPT ![idx] = [snap EXCEPT !.updatedAt = now']]
          /\ pendingLocalChanges' =
               Append(pendingLocalChanges,
                      [uid |-> ev'.c, op |-> "update", quote |-> quotes'[idx]])]_vars

\* a local version was restored over a server version of another text and
\* category, at a later reading of the clock, and queued as an update
C8_Witness ==
  /\ ev.op = "restore"
  /\ \E i \in 1..Len(quotes) :
       /\ ~IsLocalId(quotes[i].id)
       /\ HasId(server, quotes[i].id)
       /\ LastWithId(server, quotes[i].id).text # quotes[i].text
       /\ LastWithId(server, quotes[i].id).category # quotes[i].category
       /\ quotes[i].updatedAt = now
       /\ quotes[i].updatedAt > LastWithId(server, quotes[i].id).updatedAt
       /\ pendingLocalChanges # <<>>
       /\ pendingLocalChanges[Len(pendingLocalChanges)] =
            [uid |-> ev.c, op |-> "update", quote |-> quotes[i]]

\* C10: the durable record is the in-memory {quotes, pendingLocalChanges} whenever
\* no handler is running.
C10_StorageMatchesMemory ==
  booted => storage = Persisted(quotes, pendingLocalChanges)

\* C11: when the fetch of a cycle fails, the cycle ends with the status
\* "Sync error": no merge and no second flush run (no request is sent, the
\* collection, the outbox and the durable record stay as the first flush left
\* them) and no conflict is shown.
C11_FetchFailureAborts ==
  [][ev'.op = "fetchFail" =>
       /\ cyc[ev'.p].pc = "wait_fetch"
       /\ cyc'[ev'.p] = IdleCycle
       /\ syncStatus' = "Sync error"
       /\ quotes' = quotes
       /\ pendingLocalChanges' = pendingLocalChanges
       /\ storage' = storage
       /\ server' = server
       /\ banner' = banner]_vars

\* the first flush of cycle 2 pushed the create of the added quote (cycle 1, which
\* found an empty outbox, still waits for its fetch), then the fetch of cycle 2
\* failed: the quote has its canonical id, the outbox is empty, the durable record
\* says so, and the remote collection holds a quote the merge would have compared
C11_Witness ==
  /\ ev = Event("fetchFail", 2, 0)
  /\ cyc[1].pc = "wait_fetch"
  /\ cyc[1].phase = 1
  /\ syncStatus = "Sync error"
  /\ used.adds = 1
  /\ Len(quotes) = 3
  /\ ~IsLocalId(quotes[3].id)
  /\ pendingLocalChanges = <<>>
  /\ storage = Persisted(quotes, <<>>)
  /\ server # <<>>
  /\ banner = <<>>

\* the collection initLocalData() seeds: the two built-in quotes, with local ids
IsDefaultSeed(qs) ==
  /\ Len(qs) = 2
  /\ \A i \in 1..2 : IsLocalId(qs[i].id)
  /\ <<qs[1].text, qs[1].category>> = <<"S1", "Motivation">>
  /\ <<qs[2].text, qs[2].category>> = <<"S2", "Inspiration">>

\* the operations and quotes of an outbox, without the identity of its objects
Stored(pend) == [i \in 1..Len(pend) |-> [op |-> pend[i].op, quote |-> pend[i].quote]]

\* C12: boot goes through whatever the durable record is; when there is no
\* record, or it does not parse, or it parses to a value whose `quotes` is not an
\* array, the store ends with the built-in quotes and an empty outbox (and that
\* is saved); when the record has both arrays the store ends with its quotes and
\* its pending changes, in their order (a record with an array `quotes` and no
\* array `pendingLocalChanges` gives its quotes and an empty outbox).
C12_LoadNeverFails ==
  /\ [](~booted => ENABLED Boot)
  /\ [][ev'.op = "boot" =>
          IF storage.kind = "json"
          THEN /\ quotes' = storage.quotes
               /\ Stored(pendingLocalChanges') = storage.pendingLocalChanges
          ELSE IF storage.kind = "noOutbox"
          THEN /\ quotes' = storage.quotes
               /\ pendingLocalChanges' = <<>>
          ELSE /\ IsDefaultSeed(quotes')
               /\ pendingLocalChanges' = <<>>
               /\ storage' = Persisted(quotes', <<>>)]_vars

\* the page booted on a record JSON.parse rejects and holds the built-in quotes
C12_Witness ==
  /\ booted
  /\ ev.op = "boot"
  /\ RecordKinds[ev.c] = "unparsable"
  /\ IsDefaultSeed(quotes)
  /\ pendingLocalChanges = <<>>
  /\ storage = Persisted(quotes, <<>>)
  /\ cyc[1].pc = "wait_fetch"

\* the page booted on a record with two quotes and a change for each, holds them
\* and has sent the first change
C12_RestoredWitness ==
  /\ booted
  /\ ev.op = "boot"
  /\ storage.kind = "json"
  /\ Len(storage.quotes) = 2
  /\ Len(storage.pendingLocalChanges) = 2
  /\ quotes = storage.quotes
  /\ Stored(pendingLocalChanges) = storage.pendingLocalChanges
  /\ cyc[1].pc = "wait_push"

\* the change a call of addLocalQuote or editLocalQuote has just queued: its quote
\* holds the text and the category the call was given
QueuedLast(pend) == pend[Len(pend)]

\* C13: a call of addLocalQuote or editLocalQuote with an empty text or an empty
\* category changes nothing: every call that changes the collection, the outbox
\* or the durable record was given a text and a category that are not empty.
C13_BlankRejected ==
  [][ev'.op \in {"add", "edit"} =>
       /\ QueuedLast(pendingLocalChanges').quote.text # ""
       /\ QueuedLast(pendingLocalChanges').quote.category # ""]_vars

\* a step in which syncWithServer invocation ev'.p reaches setSyncStatus("Synced")
ReachesSynced ==
  /\ ev'.op \in {"merge", "pushOk", "pushFail"}
  /\ cyc'[ev'.p] = IdleCycle

\* the conflicts that invocation hands to showConflictBanner in such a step
Surfaced ==
  IF ev'.op = "merge"
  THEN mergeServerIntoLocal(quotes, pendingLocalChanges, server).conflicts
  ELSE cyc[ev'.p].conflicts

\* C14: when a cycle reaches "Synced" and shows a conflict, the collection's
\* entry of the conflict's id is the server quote of the conflict.
C14_ServerVersionInstalled ==
  [][ReachesSynced =>
       \A k \in 1..Len(Surfaced) :
         /\ HasId(quotes', Surfaced[k].server.id)
         /\ quotes'[FindIndex(quotes', Surfaced[k].server.id)] = Surfaced[k].server]_vars

\* C15: when the response to the request for a change is a success, every quote
\* of the change's id becomes the quote the response returned and no other quote
\* changes; the outbox is untouched while the flush has requests left, and when
\* the flush is over it is the outbox without the changes that succeeded in this
\* flush, all the others (those that failed in it too) in their order.
C15_SucceededPushApplied ==
  [][ev'.op = "pushOk" =>
       LET me == cyc[ev'.p]
           succ == me.succeeded \cup {me.cur.uid}
       IN /\ me.cur.uid = ev'.c
          /\ Len(quotes') = Len(quotes)
          /\ \A i \in 1..Len(quotes) :
               quotes'[i] = IF quotes[i].id = me.cur.quote.id THEN me.body ELSE quotes[i]
          /\ IF cyc'[ev'.p].pc = "wait_push"
             THEN pendingLocalChanges' = pendingLocalChanges
             ELSE /\ IsRestOf(pendingLocalChanges', pendingLocalChanges)
                  /\ \A k \in 1..Len(pendingLocalChanges) :
                       (\E j \in 1..Len(pendingLocalChanges') :
                          pendingLocalChanges'[j] = pendingLocalChanges[k])
                       <=> pendingLocalChanges[k].uid \notin succ]_vars

\* a flush ended on the success of the second of two changes: the quote has the
\* id the remote store gave it, that change is gone, and the first change, which
\* failed in that flush, is the outbox
C15_Witness ==
  /\ ev.op = "pushOk"
  /\ ev.c = 2
  /\ nextUid = 3
  /\ cyc[ev.p].pc # "wait_push"
  /\ \A q \in Cycles : cyc[q].pc # "wait_push"
  /\ Len(pendingLocalChanges) = 1
  /\ pendingLocalChanges[1].uid = 1
  /\ Len(server) = 1
  /\ \E i \in 1..Len(quotes) : quotes[i] = server[1]
  /\ storage = Persisted(quotes, pendingLocalChanges)

\* C16: while the timer keeps starting cycles and every request gets a response,
\* once the network accepts every request every change in the outbox leaves it,
\* however often its request failed and whatever fetch failed before: whatever is
\* queued, the outbox is empty again later.
C16_OutboxDrains == []<>(pendingLocalChanges = <<>>)

\* the request for change 1 had failed and a cycle had ended in a failed fetch;
\* the network recovered, a later flush sent the change again, and the outbox
\* is empty
C16_Witness ==
  /\ net.up
  /\ 1 \in net.failed
  /\ net.fetchFailed
  /\ ev = Event("pushOk", ev.p, 1)
  /\ pendingLocalChanges = <<>>

\* a syncWithServer invocation has started and not reached its last line
InFlight(p) == cyc[p].pc # "idle"

\* C17: the status is "Syncing..." from the start of a cycle to its end, where it
\* becomes "Synced" or "Sync error": it is neither of the two while a cycle is
\* still waiting for a response.
C17_StatusWhileInFlight ==
  (\E p \in Cycles : InFlight(p)) => syncStatus \notin {"Synced", "Sync error"}

\* C18: no quote made locally gives two records of the remote collection (which
\* only this page writes, one record per successful POST): the collection never
\* holds more records than quotes were made locally, the two seeds and the
\* quotes added.
C18_OneRemoteRecordPerQuote == Len(server) <= 2 + used.adds

\* C19: when no syncWithServer invocation is in flight, the outbox holds a
\* change for every quote of the collection that has a local id.
C19_LocalQuotesAreQueued ==
  (booted /\ \A p \in Cycles : ~InFlight(p)) =>
    \A i \in 1..Len(quotes) :
      IsLocalId(quotes[i].id) => OutboxHolds(pendingLocalChanges, quotes[i].id)

\* the changes the flush of invocation p has recorded in `succeeded` once the
\* handler of this step has run
SucceededBy(p) ==
  cyc[p].succeeded \cup (IF ev'.op = "pushOk" /\ ev'.p = p THEN {ev'.c} ELSE {})

\* C20: a change leaves the outbox only at the end of a flush that has recorded
\* it as succeeded, and a flush records a change as succeeded only on the
\* successful response to the request for it; so a change queued while flushes
\* wait for responses is, when they are over, in the outbox or pushed.
C20_NoChangeDropped ==
  [][/\ \A k \in 1..Len(pendingLocalChanges) :
          (\A j \in 1..Len(pendingLocalChanges') :
             pendingLocalChanges'[j] # pendingLocalChanges[k])
          => /\ ev'.op \in {"pushOk", "pushFail"}
             /\ pendingLocalChanges[k].uid \in SucceededBy(ev'.p)
     /\ \A p \in Cycles :
          \A u \in cyc'[p].succeeded \ cyc[p].succeeded :
            /\ ev' = Event("pushOk", p, u)
            /\ cyc[p].cur.uid = u
            /\ cyc[p].res = "ok"]_vars

\* change 2 was queued while a flush waited for the response for change 1, on
\* the array another flush's filter had bound the name to: the loop of the first
\* flush did not come to it, and that flush ended, on the success of change 1,
\* with change 2 as the outbox
C20_Witness ==
  /\ ev.op = "pushOk"
  /\ ev.c = 1
  /\ \A q \in Cycles : cyc[q].pc # "wait_push"
  /\ Len(pendingLocalChanges) = 1
  /\ pendingLocalChanges[1].uid = 2
  /\ storage = Persisted(quotes, pendingLocalChanges)

====
